---- MODULE Spec2Model ----
\* A model of the representatives lookup service of cac-reptracker
\* (golang/server): the TTL cache, the retrying fetch client, the
\* dynamic-key decoder, the record normaliser and the lookup orchestrator.
EXTENDS Integers, Sequences, FiniteSets, TLC

VARIABLES
    items,      \* Cache.items: map from key to CacheItem (a partial function)
    mu,         \* Cache.mu: the RWMutex, [readers: set of workers, writer: set of workers]
    now,        \* the clock read by time.Now()
    pc,         \* per worker: the place it stands at
    arg,        \* per worker: the arguments of the cache call in progress
    res,        \* per worker: what its last Cache.Get returned
    ret,        \* per worker: where the cache call in progress returns to
    snap,       \* per worker (history): what its Get could have seen, and when it read
    hist,       \* per key (history): the most recently completed Set
    calls,      \* the number of operations started so far
    env,        \* the process environment (LOC_API_KEY, MODE)
    lk,         \* per worker: the locals of getMembers and fetchJSON, and their history
    firstOK,    \* (history) the first lookup that fetched, stored and returned a list
    norm,       \* one call of apiMemberToMember: its argument and what it returned
    dec,        \* one call of decodeData: its argument and what it returned
    url         \* one call of fetchJSON up to the request URL: its arguments and the URL

vars ==
    <<items, mu, now, pc, arg, res, ret, snap, hist, calls, env, lk, firstOK, norm, dec, url>>

--------------------------------------------------------------------------
\* Bounds of the model.

\* The clock runs from 0 to MaxTime ticks: with one tick to the hour, an
\* entry stored at 0 is valid at 0, expires at 1 and is past expiry at 2.
MaxTime == 2

\* The number of clock ticks in one hour (the resolution of the clock).
TicksPerHour == 1

\* The number of cache operations the callers of SpecCache start.
MaxCalls == 3

\* The number of lookups the handler starts in Spec.
MaxLookups == 3

\* The goroutines serving requests, named in the order they are taken: a
\* request is served by the first one that is free.
Workers == 1 .. 2

FirstFree(w) == \A v \in Workers : v < w => pc[v] # "idle"

--------------------------------------------------------------------------
\* Go strings that the code takes apart (names, chambers) are sequences of
\* characters, the empty string being << >>. Strings the code only compares
\* or passes on (codes, ids, state and party names) are kept whole, and a
\* string the code builds (a display label) is the sequence of its pieces.

\* strings.IndexByte: the index of the first c in s, 0 when there is none.
RECURSIVE IndexFrom(_, _, _)
IndexFrom(s, c, i) ==
    IF i > Len(s) THEN 0
    ELSE IF s[i] = c THEN i
    ELSE IndexFrom(s, c, i + 1)

Index(s, c) == IndexFrom(s, c, 1)

\* unicode.IsSpace, on the characters the model uses.
IsSpace(c) == c \in {" ", "\t", "\n"}

\* strings.TrimSpace
RECURSIVE TrimLeft(_)
TrimLeft(s) ==
    IF s # << >> /\ IsSpace(Head(s)) THEN TrimLeft(Tail(s)) ELSE s

RECURSIVE TrimRight(_)
TrimRight(s) ==
    IF s # << >> /\ IsSpace(s[Len(s)]) THEN TrimRight(SubSeq(s, 1, Len(s) - 1)) ELSE s

TrimSpace(s) == TrimRight(TrimLeft(s))

\* strings.SplitN(s, sep, 2) for a one-character sep: at most two parts.
SplitN2(s, sep) ==
    LET i == Index(s, sep)
    IN  IF i = 0 THEN <<s>>
        ELSE <<SubSeq(s, 1, i - 1), SubSeq(s, i + 1, Len(s))>>

\* strings.Split(s, sep)[0] for a one-character sep: the part before the first sep.
SplitFirst(s, sep) ==
    LET i == Index(s, sep)
    IN  IF i = 0 THEN s ELSE SubSeq(s, 1, i - 1)

\* Simple case folding of one character, on the letters the model uses.
FoldChar(c) ==
    CASE c = "S" -> "s" [] c = "E" -> "e" [] c = "N" -> "n" [] c = "A" -> "a"
      [] c = "T" -> "t" [] c = "H" -> "h" [] c = "O" -> "o" [] c = "U" -> "u"
      [] c = "G" -> "g" [] c = "Y" -> "y" [] c = "Z" -> "z"
      [] OTHER -> c

\* strings.EqualFold
EqualFold(s, t) ==
    /\ Len(s) = Len(t)
    /\ \A i \in 1 .. Len(s) : FoldChar(s[i]) = FoldChar(t[i])

\* strings.ToUpper, on the jurisdiction codes the model looks up (codes are
\* kept whole, as the keys of the cache).
MutToUpperAsIs(code) == code

ToUpper(code) ==
    CASE code = "ga" -> "GA" [] code = "Ga" -> "GA" [] code = "zz" -> "ZZ"
      [] code = "ny" -> "NY"
      [] OTHER -> code

\* strings.ToLower, on the values of MODE the model uses.
ToLower(mode) ==
    CASE mode = "REAL" -> "real" [] mode = "Real" -> "real" [] mode = "MOCK" -> "mock"
      [] OTHER -> mode

\* The decimal digits of fmt's %d, for a natural number.
Digit(d) ==
    CASE d = 0 -> "0" [] d = 1 -> "1" [] d = 2 -> "2" [] d = 3 -> "3" [] d = 4 -> "4"
      [] d = 5 -> "5" [] d = 6 -> "6" [] d = 7 -> "7" [] d = 8 -> "8" [] OTHER -> "9"

RECURSIVE Itoa(_)
Itoa(n) == IF n < 10 THEN <<Digit(n)>> ELSE Itoa(n \div 10) \o <<Digit(n % 10)>>

--------------------------------------------------------------------------
\* models.go: Member (the client record) and ApiMember (the upstream record).
\* An optional end year (*int) is << >> when nil and <<year>> otherwise.

mkMember(id, first, last, party, district) ==
    [ID |-> id, FirstName |-> first, LastName |-> last,
     Party |-> party, District |-> district]

ApiTermItem(chamber, startYear, endYear) ==
    [Chamber |-> chamber, StartYear |-> startYear, EndYear |-> endYear]

ApiMember(id, name, terms, state, district, party) ==
    [BioguideID |-> id, Name |-> name, Terms |-> terms, State |-> state,
     District |-> district, Party |-> party]

s_Senate == <<"S", "e", "n", "a", "t", "e">>

--------------------------------------------------------------------------
\* apiMemberToMember: the record normaliser. The result is [ok, member];
\* the zero Member is returned with ok = FALSE.

ZeroMember == mkMember("", << >>, << >>, << >>, << >>)

\* The name, in "Last, First Middle" format.
LastNameOf(name) ==
    LET parts == SplitN2(name, ",")
    IN  IF Len(parts) = 2 THEN TrimSpace(parts[1]) ELSE TrimSpace(name)

FirstNameOf(name) ==
    LET parts == SplitN2(name, ",")
    IN  IF Len(parts) = 2 THEN SplitFirst(TrimSpace(parts[2]), " ") ELSE << >>

\* switch apiM.Party
MutPartyNoDefault(party) ==
    CASE party = "Democratic"  -> <<" (D)">>
      [] party = "Republican"  -> <<" (R)">>
      [] party = "Independent" -> <<" (I)">>
      [] party = "Libertarian" -> <<" (L)">>
      [] party = "Green"       -> <<" (G)">>
      [] OTHER -> << >>

PartyDisplay(party) ==
    CASE party = "Democratic"  -> <<" (D)">>
      [] party = "Republican"  -> <<" (R)">>
      [] party = "Independent" -> <<" (I)">>
      [] party = "Libertarian" -> <<" (L)">>
      [] party = "Green"       -> <<" (G)">>
      [] OTHER -> IF party # "" THEN <<" (", party, ")">> ELSE << >>

MutDistrictExactCase(district, lastTerm) ==
    IF district = 0
    THEN IF lastTerm.Chamber = s_Senate
         THEN <<"Senator">>
         ELSE <<"At-Large Rep.">>
    ELSE <<"District ">> \o Itoa(district) \o <<" Rep.">>

DistrictDisplay(district, lastTerm) ==
    IF district = 0
    THEN IF EqualFold(lastTerm.Chamber, s_Senate)
         THEN <<"Senator">>
         ELSE <<"At-Large Rep.">>
    ELSE <<"District ">> \o Itoa(district) \o <<" Rep.">>

\* The current-office test: the record has a term and its last term has no end year.
MutIsCurrentAnyTerm(apiM) ==
    /\ Len(apiM.Terms) # 0
    /\ \E i \in 1 .. Len(apiM.Terms) : apiM.Terms[i].EndYear = << >>

MutIsCurrentFirstTerm(apiM) ==
    /\ Len(apiM.Terms) # 0
    /\ apiM.Terms[1].EndYear = << >>

IsCurrent(apiM) ==
    /\ Len(apiM.Terms) # 0
    /\ apiM.Terms[Len(apiM.Terms)].EndYear = << >>

apiMemberToMember(apiM) ==
    IF ~IsCurrent(apiM) THEN [ok |-> FALSE, member |-> ZeroMember]
    ELSE [ok |-> TRUE,
          member |-> mkMember(apiM.BioguideID,
                              FirstNameOf(apiM.Name),
                              LastNameOf(apiM.Name),
                              PartyDisplay(apiM.Party),
                              DistrictDisplay(apiM.District,
                                              apiM.Terms[Len(apiM.Terms)]))]

\* No call of apiMemberToMember in progress.
NoNorm == [apiM |-> << >>, result |-> << >>]

\* No call of decodeData in progress.
NoDec == [raw |-> << >>, result |-> << >>]

NoURL == [path |-> "", params |-> << >>, result |-> << >>]

--------------------------------------------------------------------------
\* The TTL cache (Cache, CacheItem, NewCache, Get, Set).

CacheItem(value, expiresAt) == [Value |-> value, ExpiresAt |-> expiresAt]

\* NewCache: an empty map and an unlocked mutex.
NewCache == << >>

Unlocked == [readers |-> {}, writer |-> {}]

\* sync.RWMutex: RLock is granted when no writer holds the lock, Lock when
\* nobody holds it.
CanRLock(m) == m.writer = {}

MutCanLockAmongReaders(m) == m.writer = {}

CanLock(m) == m.writer = {} /\ m.readers = {}

\* time.Time.After: strictly later.
After(t, u) == t > u

\* time.Time.Add
Add(t, d) == t + d

\* The body of Cache.Get, under the read lock: <<value, found>>. A miss
\* returns the nil slice, modelled like the empty one as << >>.
MutGetEmptyIsMiss(m, key, t) ==
    IF key \notin DOMAIN m \/ After(t, m[key].ExpiresAt) \/ m[key].Value = << >>
    THEN [Value |-> << >>, found |-> FALSE]
    ELSE [Value |-> m[key].Value, found |-> TRUE]

CacheGet(m, key, t) ==
    IF key \notin DOMAIN m \/ After(t, m[key].ExpiresAt)
    THEN [Value |-> << >>, found |-> FALSE]
    ELSE [Value |-> m[key].Value, found |-> TRUE]

\* The body of Cache.Set, under the write lock: the new map.
MutSetKeepOld(m, key, value, ttl, t) ==
    IF key \in DOMAIN m THEN m
    ELSE [k \in DOMAIN m \cup {key} |->
            IF k = key THEN CacheItem(value, Add(t, ttl)) ELSE m[k]]

CacheSet(m, key, value, ttl, t) ==
    [k \in DOMAIN m \cup {key} |->
        IF k = key THEN CacheItem(value, Add(t, ttl)) ELSE m[k]]

--------------------------------------------------------------------------
\* Errors. kind names the failure, op the step of getMembers that wrapped it
\* ("" for none), status the HTTP status of an upstream error and cause the
\* transport failure a transport error wraps (the attempt that returned it).

NoErr == [kind |-> "nil", op |-> "", status |-> 0, cause |-> 0]

Err(kind, status, cause) == [kind |-> kind, op |-> "", status |-> status, cause |-> cause]

\* fmt.Errorf("...: %w", err)
Wrap(op, err) == [err EXCEPT !.op = op]

--------------------------------------------------------------------------
\* The locals of one lookup (representativesHandler, getMembers, fetchJSON)
\* and its history: tries counts the calls of client.Get, trace lists their
\* outcomes, sleeps the backoff delays in milliseconds, sets the calls of
\* memberCache.Set and stored what the last of them left in the map. due is
\* set at the cache check: the list of the most recently completed Set of the
\* key, when the check read the clock inside its validity window. dueFirst is
\* the list of the first lookup that succeeded for the code, when this lookup
\* both starts and checks the cache inside its window. failed names the failure of
\* the fetch or decode step, when one has failed, and decoded holds the records
\* decodeData returned. got is the status-200 response the last client.Get
\* received, until decodeData has taken its body. expired is set at the cache check: the expiration
\* instant of the key's entry, when the check read the clock at or past it.

NoOut == [done |-> FALSE, list |-> << >>, err |-> NoErr]

\* What representativesHandler does with the answer of the lookup: the status,
\* content type and body it writes (text for http.Error, json holding the list
\* writeJSON encodes), and the error it hands to log.Printf.
NoResp == [status |-> 0, contentType |-> "", text |-> "", json |-> << >>, logged |-> << >>]

MutResponseWithError(reps, err) ==
    IF err # NoErr
    THEN [status |-> 500, contentType |-> "text/plain; charset=utf-8",
          text |-> err.kind, json |-> << >>, logged |-> <<err>>]
    ELSE [status |-> 200, contentType |-> "application/json",
          text |-> "", json |-> <<reps>>, logged |-> << >>]

HandlerResponse(reps, err) ==
    IF err # NoErr
    THEN [status |-> 500, contentType |-> "text/plain; charset=utf-8",
          text |-> "internal server error while fetching representatives",
          json |-> << >>, logged |-> <<err>>]
    ELSE [status |-> 200, contentType |-> "application/json",
          text |-> "", json |-> <<reps>>, logged |-> << >>]

NoLookup ==
    [state |-> "", attempt |-> 0, tries |-> 0, trace |-> << >>, sleeps |-> << >>,
     raw |-> << >>, members |-> << >>, sets |-> 0, stored |-> << >>,
     due |-> << >>, dueFirst |-> << >>, expired |-> << >>, failed |-> "",
     decoded |-> << >>, got |-> << >>, out |-> NoOut, resp |-> NoResp]

\* History of Cache.Set inside a lookup: one more write, what it stored, and
\* the lookups in progress whose Set of the same key had already finished.
NoteSet(l, key, item, t, after) ==
    IF l.state = "" THEN l
    ELSE [l EXCEPT !.sets = @ + 1,
                   !.stored = <<[key |-> key, item |-> item, at |-> t,
                                 after |-> after]>>]

--------------------------------------------------------------------------
\* The steps of Cache.Get and Cache.Set as a worker takes them. The deferred
\* unlock runs as the body returns, to the place ret names.

NoArg == [key |-> "", value |-> << >>, ttl |-> 0]

NoRes == [Value |-> << >>, found |-> FALSE]

NoSnap == [at |-> -1, last |-> << >>]

\* c.mu.RLock()
GetRLock(w) ==
    /\ pc[w] = "Get.RLock"
    /\ CanRLock(mu)
    /\ mu' = [mu EXCEPT !.readers = @ \cup {w}]
    /\ pc' = [pc EXCEPT ![w] = "Get.body"]
    /\ UNCHANGED <<url, dec, norm, items, now, arg, res, ret, snap, hist, calls, env, lk, firstOK>>

\* item, found := c.items[key]; the expiry test; return; c.mu.RUnlock()
GetBody(w) ==
    /\ pc[w] = "Get.body"
    /\ res' = [res EXCEPT ![w] = CacheGet(items, arg[w].key, now)]
    /\ snap' = [snap EXCEPT ![w] =
                  [at |-> now,
                   last |-> IF arg[w].key \in DOMAIN hist
                            THEN <<hist[arg[w].key]>> ELSE << >>]]
    /\ mu' = [mu EXCEPT !.readers = @ \ {w}]
    /\ arg' = [arg EXCEPT ![w] = NoArg]
    /\ pc' = [pc EXCEPT ![w] = ret[w]]
    /\ ret' = [ret EXCEPT ![w] = "idle"]
    /\ UNCHANGED <<url, dec, norm, items, now, hist, calls, env, lk, firstOK>>

\* c.mu.Lock()
SetLock(w) ==
    /\ pc[w] = "Set.Lock"
    /\ CanLock(mu)
    /\ mu' = [mu EXCEPT !.writer = {w}]
    /\ pc' = [pc EXCEPT ![w] = "Set.body"]
    /\ UNCHANGED <<url, dec, norm, items, now, arg, res, ret, snap, hist, calls, env, lk, firstOK>>

\* c.items[key] = CacheItem{...}; c.mu.Unlock()
SetBody(w) ==
    /\ pc[w] = "Set.body"
    /\ items' = CacheSet(items, arg[w].key, arg[w].value, arg[w].ttl, now)
    /\ hist' = [k \in DOMAIN hist \cup {arg[w].key} |->
                  IF k = arg[w].key
                  THEN [Value |-> arg[w].value, at |-> now, ttl |-> arg[w].ttl,
                        over |-> k \in DOMAIN hist /\ hist[k].Value # arg[w].value]
                  ELSE hist[k]]
    /\ mu' = [mu EXCEPT !.writer = {}]
    /\ arg' = [arg EXCEPT ![w] = NoArg]
    /\ pc' = [pc EXCEPT ![w] = ret[w]]
    /\ ret' = [ret EXCEPT ![w] = "idle"]
    /\ lk' = [lk EXCEPT ![w] =
                NoteSet(lk[w], arg[w].key, items'[arg[w].key], now,
                        {v \in Workers \ {w} :
                            lk[v].state = arg[w].key /\ lk[v].sets > 0})]
    /\ UNCHANGED <<url, dec, norm, now, res, snap, calls, env, firstOK>>

\* The clock advances.
Tick ==
    /\ now < MaxTime
    /\ now' = now + 1
    /\ UNCHANGED <<url, dec, norm, items, mu, pc, arg, res, ret, snap, hist, calls, env, lk, firstOK>>

--------------------------------------------------------------------------
\* SpecCache: concurrent workers calling Cache.Get and Cache.Set directly.

CacheKeys == {"GA", "NY"}

CacheValues ==
    { <<mkMember("rep-ny-1", <<"A">>, <<"J">>, <<"D">>, <<"1">>)>>,
      <<mkMember("rep-ny-2", <<"R">>, <<"M">>, <<"R">>, <<"2">>)>> }

\* The ttls a direct caller passes: none at all, and the one getMembers uses.
TTLs == {0, TicksPerHour}

InitCache ==
    /\ items = NewCache
    /\ mu = Unlocked
    /\ now = 0
    /\ pc = [w \in Workers |-> "idle"]
    /\ arg = [w \in Workers |-> NoArg]
    /\ res = [w \in Workers |-> NoRes]
    /\ ret = [w \in Workers |-> "idle"]
    /\ snap = [w \in Workers |-> NoSnap]
    /\ hist = << >>
    /\ calls = 0
    /\ env = [LOC_API_KEY |-> "", MODE |-> ""]
    /\ lk = [w \in Workers |-> NoLookup]
    /\ firstOK = << >>
    /\ norm = NoNorm
    /\ dec = NoDec
    /\ url = NoURL

\* memberCache.Get(key) is called.
CallGet(w, key) ==
    /\ pc[w] = "idle"
    /\ FirstFree(w)
    /\ calls < MaxCalls
    /\ calls' = calls + 1
    /\ arg' = [arg EXCEPT ![w] = [key |-> key, value |-> << >>, ttl |-> 0]]
    /\ ret' = [ret EXCEPT ![w] = "Get.ret"]
    /\ pc' = [pc EXCEPT ![w] = "Get.RLock"]
    /\ UNCHANGED <<url, dec, norm, items, mu, now, res, snap, hist, env, lk, firstOK>>

\* memberCache.Set(key, value, ttl) is called.
CallSet(w, key, value, ttl) ==
    /\ pc[w] = "idle"
    /\ FirstFree(w)
    /\ calls < MaxCalls
    /\ calls' = calls + 1
    /\ arg' = [arg EXCEPT ![w] = [key |-> key, value |-> value, ttl |-> ttl]]
    /\ ret' = [ret EXCEPT ![w] = "idle"]
    /\ pc' = [pc EXCEPT ![w] = "Set.Lock"]
    /\ UNCHANGED <<url, dec, norm, items, mu, now, res, snap, hist, env, lk, firstOK>>

\* The caller of Get has its answer and goes on.
GetReturn(w) ==
    /\ pc[w] = "Get.ret"
    /\ pc' = [pc EXCEPT ![w] = "idle"]
    /\ res' = [res EXCEPT ![w] = NoRes]
    /\ snap' = [snap EXCEPT ![w] = NoSnap]
    /\ UNCHANGED <<url, dec, norm, items, mu, now, arg, ret, hist, calls, env, lk, firstOK>>

NextCache ==
    \/ \E w \in Workers, key \in CacheKeys : CallGet(w, key)
    \/ \E w \in Workers, key \in CacheKeys, value \in CacheValues, ttl \in TTLs :
          CallSet(w, key, value, ttl)
    \/ \E w \in Workers : GetRLock(w)
    \/ \E w \in Workers : GetBody(w)
    \/ \E w \in Workers : SetLock(w)
    \/ \E w \in Workers : SetBody(w)
    \/ \E w \in Workers : GetReturn(w)
    \/ Tick

SpecCache == InitCache /\ [][NextCache]_vars

--------------------------------------------------------------------------
\* The jurisdiction table. getStateList is abbreviated to the entries the
\* model looks up; stateCodeToNameMap is the map getMembers builds from it.

getStateList ==
    << [Code |-> "GA", Name |-> "Georgia"], [Code |-> "NY", Name |-> "New York"] >>

stateCodeToNameMap ==
    [c \in {getStateList[i].Code : i \in 1 .. Len(getStateList)} |->
        (CHOOSE e \in {getStateList[i] : i \in 1 .. Len(getStateList)} : e.Code = c).Name]

--------------------------------------------------------------------------
\* Upstream response bodies. A body is a JSON document: obj says whether it
\* parses as a JSON object, fields lists the members of the object. A field
\* value is an "array" of records that parse as ApiMember, "null", or a value
\* that json.Unmarshal rejects for []ApiMember ("scalar", "object", "badarray").

Field(name, kind, recs) == [name |-> name, kind |-> kind, recs |-> recs]

Object(fields) == [obj |-> TRUE, fields |-> fields]

NotAnObject == [obj |-> FALSE, fields |-> << >>]

s_House == <<"H", "o", "u", "s", "e">>

recSenator ==
    ApiMember("O000174", <<"O", "s", "s", ",", " ", "J", "o", "n", " ", "T">>,
              <<ApiTermItem(s_House, 2013, <<2015>>), ApiTermItem(s_Senate, 2021, << >>)>>,
              "Georgia", 0, "Democratic")

recPast ==
    ApiMember("P000001", <<"P", "a", "s", "t", ",", "P", "a", "t">>,
              <<ApiTermItem(s_House, 2001, << >>), ApiTermItem(s_House, 2003, <<2011>>)>>,
              "Georgia", 3, "Republican")

recRep12 ==
    ApiMember("A000372", <<"A", "l", "l", "e", "n">>,
              <<ApiTermItem(s_House, 2015, << >>)>>,
              "Georgia", 12, "Republican")

recNY5 ==
    ApiMember("M001137", <<"M", "e", "e", "k", "s", ",", " ", "G">>,
              <<ApiTermItem(s_House, 1998, << >>)>>,
              "New York", 5, "Democratic")

recNoTerms ==
    ApiMember("N000000", <<"N", "o", "n", "e">>, << >>, "Georgia", 0, "")

MetaRequest == Field("request", "object", << >>)

MetaPagination == Field("pagination", "object", << >>)

\* One current senator and one past member of Georgia.
docMembers ==
    Object(<<MetaPagination, MetaRequest,
             Field("members", "array", <<recSenator, recPast>>)>>)

\* Records of two jurisdictions, a record with no terms, in an order of their own.
docMixed ==
    Object(<<Field("members", "array", <<recRep12, recNY5, recNoTerms, recSenator>>)>>)

\* No record of Georgia.
docOther == Object(<<MetaRequest, Field("members", "array", <<recNY5>>)>>)

\* Metadata only.
docMeta == Object(<<MetaPagination, MetaRequest>>)

\* The one data field is not an array.
docScalar == Object(<<MetaRequest, Field("error", "scalar", << >>)>>)

Bodies == {docMembers, docMixed, docOther, docMeta, docScalar, NotAnObject}

--------------------------------------------------------------------------
\* decodeData. The fields of the top-level map are visited in the order Go's
\* map iteration happens to take; only the first field that is not metadata
\* matters, and visited names its position.

IsMetadata(key) == key = "request" \/ key = "pagination"

Candidates(raw) ==
    {i \in 1 .. Len(raw.fields) : ~IsMetadata(raw.fields[i].name)}

\* The positions map iteration may reach first among the non-metadata fields
\* (0 when there is none to reach).
FirstVisited(raw) ==
    IF ~raw.obj \/ Candidates(raw) = {} THEN {0} ELSE Candidates(raw)

\* json.Unmarshal(value, &apiMembers)
UnmarshalsAsMembers(value) == value.kind \in {"array", "null"}

decodeData(raw, visited) ==
    IF ~raw.obj THEN [recs |-> << >>, err |-> Err("json", 0, 0)]
    ELSE IF visited = 0 THEN [recs |-> << >>, err |-> Err("nodata", 0, 0)]
    ELSE IF ~UnmarshalsAsMembers(raw.fields[visited])
         THEN [recs |-> << >>, err |-> Err("unmarshal", 0, 0)]
    ELSE [recs |-> raw.fields[visited].recs, err |-> NoErr]

--------------------------------------------------------------------------
\* getMembers: the loop that filters the decoded records by state and keeps
\* the current members, in upstream order.

RECURSIVE MutFilterAnyState(_, _, _)
MutFilterAnyState(allApiMembers, stateFullName, members) ==
    IF allApiMembers = << >> THEN members
    ELSE LET apiM == Head(allApiMembers)
             m    == apiMemberToMember(apiM)
         IN  MutFilterAnyState(Tail(allApiMembers), stateFullName,
                               IF m.ok THEN Append(members, m.member) ELSE members)

RECURSIVE FilterMembers(_, _, _)
FilterMembers(allApiMembers, stateFullName, members) ==
    IF allApiMembers = << >> THEN members
    ELSE LET apiM == Head(allApiMembers)
             m    == apiMemberToMember(apiM)
         IN  FilterMembers(Tail(allApiMembers), stateFullName,
                           IF apiM.State = stateFullName /\ m.ok
                           THEN Append(members, m.member)
                           ELSE members)

--------------------------------------------------------------------------
\* fetchJSON.

\* const maxRetries = 3
maxRetries == 3

\* The milliseconds of the backoff after a failed attempt.
MutBackoffFlat(attempt) == 500

Backoff(attempt) == attempt * 500

\* The outcomes of one client.Get: a transport failure, or a response with a
\* status and a body that io.ReadAll reads or fails to read.
Statuses == {200, 404, 503}

Responses ==
    [kind : {"resp"}, status : {200}, body : Bodies, readOK : {TRUE}]
        \cup [kind : {"resp"}, status : {200}, body : {docMembers}, readOK : {FALSE}]
        \cup [kind : {"resp"}, status : Statuses \ {200}, body : {NotAnObject},
              readOK : {TRUE}]

Outcomes == {[kind |-> "fail", status |-> 0, body |-> NotAnObject, readOK |-> FALSE]}
                \cup Responses

\* What the trace keeps of an outcome.
Seen(outcome) == [kind |-> outcome.kind, status |-> outcome.status]

\* The code's `1*time.Hour`, in clock ticks.
Hour == TicksPerHour

\* readAPIKey
MutReadAPIKeyAnyway(e) == [key |-> e.LOC_API_KEY, err |-> NoErr]

readAPIKey(e) ==
    IF e.LOC_API_KEY = "" THEN [key |-> "", err |-> Err("config", 0, 0)]
    ELSE [key |-> e.LOC_API_KEY, err |-> NoErr]

\* What the retry loop and the checks after it do with the outcome of the
\* attempt numbered attempt: "retry" (sleep, then the next attempt), or leave
\* with a transport, upstream or read error, or "ok" with the body.
MutVerdictRetryStatus(attempt, outcome) ==
    IF outcome.kind = "fail" \/ outcome.status # 200
    THEN IF attempt = maxRetries
         THEN IF outcome.kind = "fail" THEN "transport" ELSE "upstream"
         ELSE "retry"
    ELSE IF ~outcome.readOK THEN "readbody"
    ELSE "ok"

MutVerdictStaleError(attempt, outcome) ==
    IF outcome.kind = "fail"
    THEN IF attempt = maxRetries THEN "transport" ELSE "retry"
    ELSE IF attempt > 1 THEN "transport"
    ELSE IF outcome.status # 200 THEN "upstream"
    ELSE IF ~outcome.readOK THEN "readbody"
    ELSE "ok"

MutVerdictOneMore(attempt, outcome) ==
    IF outcome.kind = "fail"
    THEN IF attempt > maxRetries THEN "transport" ELSE "retry"
    ELSE IF outcome.status # 200 THEN "upstream"
    ELSE IF ~outcome.readOK THEN "readbody"
    ELSE "ok"

Verdict(attempt, outcome) ==
    IF outcome.kind = "fail"
    THEN IF attempt = maxRetries THEN "transport" ELSE "retry"
    ELSE IF outcome.status # 200 THEN "upstream"
    ELSE IF ~outcome.readOK THEN "readbody"
    ELSE "ok"

\* The error fetchJSON returns for a verdict; a transport error wraps err, the
\* failure the last client.Get returned.
FetchError(verdict, outcome, err) ==
    CASE verdict = "transport" -> Err("transport", 0, err)
      [] verdict = "upstream"  -> Err("upstream", outcome.status, 0)
      [] verdict = "readbody"  -> Err("readbody", 0, 0)
      [] OTHER -> NoErr

--------------------------------------------------------------------------
\* The lookup: representativesHandler in real mode, getMembers, fetchJSON.

Recognized(state) == state \in DOMAIN stateCodeToNameMap

\* The codes requests carry.
Codes == {"GA", "ga", "ZZ"}

Finish(l, list, err) ==
    [l EXCEPT !.out = [done |-> TRUE, list |-> list, err |-> err],
              !.resp = HandlerResponse(list, err)]

\* History: the kind of a failure ("" for none), and the failure a fetch ends
\* with after this outcome: the transport failure of the last attempt of the
\* budget, a status other than 200, or a body that cannot be read.
FailureOf(err) == IF err = NoErr THEN "" ELSE err.kind

FetchFailure(attempt, outcome) ==
    IF outcome.kind = "fail"
    THEN IF attempt >= maxRetries THEN Err("transport", 0, 0) ELSE NoErr
    ELSE IF outcome.status # 200 THEN Err("upstream", outcome.status, 0)
    ELSE IF ~outcome.readOK THEN Err("readbody", 0, 0)
    ELSE NoErr

\* History, at the cache check: the list a check inside the validity window
\* of a finished Set is due.
InWindow(at, setAt, ttl) == setAt <= at /\ at < setAt + ttl

Due(sn) ==
    IF sn.last # << >> /\ InWindow(sn.at, sn.last[1].at, sn.last[1].ttl)
    THEN <<sn.last[1].Value>> ELSE << >>

\* History, at the cache check: the expiration instant of the most recently
\* completed Set of the key, when the check read the clock at or past it.
Expired(sn) ==
    IF sn.last # << >> /\ sn.at >= sn.last[1].at + sn.last[1].ttl
    THEN <<sn.last[1].at + sn.last[1].ttl>> ELSE << >>

\* History, at the start of a lookup: the list of the first lookup that
\* succeeded for the code, when this one starts inside its validity window.
DueFirst(key, t) ==
    IF firstOK # << >> /\ firstOK[1].key = key
       /\ InWindow(t, firstOK[1].at, Hour)
    THEN <<firstOK[1].list>> ELSE << >>

\* mock.go: the canned records of getMembersMock.
mockDB ==
    [NY |-> <<mkMember("rep-ny-1", <<"Alex">>, <<"Johnson">>, <<" (D)">>, <<"1">>),
              mkMember("rep-ny-2", <<"Riley">>, <<"Martinez">>, <<" (R)">>, <<"2">>)>>,
     CA |-> <<mkMember("rep-ca-12", <<"Morgan">>, <<"Lee">>, <<" (D)">>, <<"1", "2">>),
              mkMember("rep-ca-14", <<"Taylor">>, <<"Nguyen">>, <<" (D)">>, <<"1", "4">>)>>,
     TX |-> <<mkMember("rep-tx-7", <<"Sam">>, <<"Williams">>, <<" (R)">>, <<"7">>)>>]

\* getMembersMock
getMembersMock(state) ==
    IF state \in DOMAIN mockDB THEN [list |-> mockDB[state], err |-> NoErr]
    ELSE [list |-> << >>, err |-> NoErr]

\* mode := strings.ToLower(os.Getenv("MODE")); mode == "real"
MutRealModeAlways(e) == TRUE

RealMode(e) == ToLower(e.MODE) = "real"

\* state := strings.ToUpper(...); in real mode getMembers(state), which begins
\* with memberCache.Get(state); in any other mode getMembersMock(state).
Lookup(w, code) ==
    /\ pc[w] = "idle"
    /\ FirstFree(w)
    /\ calls < MaxLookups
    /\ calls' = calls + 1
    /\ IF RealMode(env)
       THEN /\ lk' = [lk EXCEPT ![w] = [NoLookup EXCEPT !.state = ToUpper(code),
                                         !.dueFirst = DueFirst(ToUpper(code), now)]]
            /\ arg' = [arg EXCEPT ![w] = [key |-> ToUpper(code), value |-> << >>, ttl |-> 0]]
            /\ ret' = [ret EXCEPT ![w] = "getMembers.got"]
            /\ pc' = [pc EXCEPT ![w] = "Get.RLock"]
       ELSE /\ lk' = [lk EXCEPT ![w] =
                        LET m == getMembersMock(ToUpper(code))
                        IN  Finish([NoLookup EXCEPT !.state = ToUpper(code)], m.list, m.err)]
            /\ pc' = [pc EXCEPT ![w] = "done"]
            /\ UNCHANGED <<arg, ret>>
    /\ UNCHANGED <<url, dec, norm, items, mu, now, res, snap, hist, env, firstOK>>

\* Where getMembers goes once Get has answered: "hit" (return the cached
\* list), "unknown" (the code is not in the table), "nokey" (readAPIKey
\* failed) or "fetch" (the first attempt).
MutAfterGetNoTable(r, state, e) ==
    IF r.found THEN "hit"
    ELSE IF readAPIKey(e).err # NoErr THEN "nokey"
    ELSE "fetch"

MutAfterGetIgnoreHit(r, state, e) ==
    IF ~Recognized(state) THEN "unknown"
    ELSE IF readAPIKey(e).err # NoErr THEN "nokey"
    ELSE "fetch"

AfterGet(r, state, e) ==
    IF r.found THEN "hit"
    ELSE IF ~Recognized(state) THEN "unknown"
    ELSE IF readAPIKey(e).err # NoErr THEN "nokey"
    ELSE "fetch"

GetMembersAfterGet(w) ==
    /\ pc[w] = "getMembers.got"
    /\ LET go == AfterGet(res[w], lk[w].state, env)
           l  == [lk[w] EXCEPT !.due = Due(snap[w]),
                               !.expired = Expired(snap[w]),
                               !.dueFirst = IF DueFirst(lk[w].state, snap[w].at) = << >>
                                            THEN << >> ELSE @,
                               !.failed = IF ~res[w].found /\ Recognized(lk[w].state)
                                          THEN FailureOf(readAPIKey(env).err)
                                          ELSE ""]
       IN  /\ lk' = [lk EXCEPT ![w] =
                 CASE go = "hit"     -> Finish(l, res[w].Value, NoErr)
                   [] go = "unknown" -> Finish(l, << >>, NoErr)
                   [] go = "nokey"   -> Finish(l, << >>, Wrap("fetch", readAPIKey(env).err))
                   [] OTHER          -> [l EXCEPT !.attempt = 1]]
           /\ pc' = [pc EXCEPT ![w] = IF go = "fetch" THEN "fetchJSON.attempt" ELSE "done"]
    /\ res' = [res EXCEPT ![w] = NoRes]
    /\ snap' = [snap EXCEPT ![w] = NoSnap]
    /\ UNCHANGED <<url, dec, norm, items, mu, now, arg, ret, hist, calls, env, firstOK>>

\* resp, err = client.Get(u.String()), and what follows it up to the sleep,
\* the return of an error, or the return of the body to getMembers.
ClientGet(w) ==
    /\ pc[w] = "fetchJSON.attempt"
    /\ \E outcome \in Outcomes :
        LET v == Verdict(lk[w].attempt, outcome)
            l == [lk[w] EXCEPT !.tries = @ + 1,
                               !.trace = Append(@, Seen(outcome)),
                               !.got = IF outcome.kind = "resp" /\ outcome.status = 200
                                       THEN <<outcome>> ELSE << >>,
                               !.failed = FailureOf(FetchFailure(lk[w].attempt, outcome))]
        IN  /\ lk' = [lk EXCEPT ![w] =
                  CASE v = "retry" -> [l EXCEPT !.sleeps = Append(@, Backoff(l.attempt))]
                    [] v = "ok"    -> [l EXCEPT !.raw = <<outcome.body>>]
                    [] OTHER       -> Finish(l, << >>,
                                             Wrap("fetch", FetchError(v, outcome, l.tries)))]
            /\ pc' = [pc EXCEPT ![w] =
                  CASE v = "retry" -> "fetchJSON.sleep"
                    [] v = "ok"    -> "decodeData"
                    [] OTHER       -> "done"]
    /\ UNCHANGED <<url, dec, norm, items, mu, now, arg, res, ret, snap, hist, calls, env, firstOK>>

\* time.Sleep returns; attempt++
SleepDone(w) ==
    /\ pc[w] = "fetchJSON.sleep"
    /\ lk' = [lk EXCEPT ![w].attempt = @ + 1]
    /\ pc' = [pc EXCEPT ![w] = "fetchJSON.attempt"]
    /\ UNCHANGED <<url, dec, norm, items, mu, now, arg, res, ret, snap, hist, calls, env, firstOK>>

\* Where getMembers goes once decodeData has answered: "fail" or "set".
MutAfterDecodeSetAnyway(d) == "set"

AfterDecode(d) == IF d.err # NoErr THEN "fail" ELSE "set"

\* allApiMembers, err := decodeData(rawJSON); the filter loop; getMembers
\* then calls memberCache.Set(state, members, 1*time.Hour).
DecodeData(w) ==
    /\ pc[w] = "decodeData"
    /\ \E visited \in FirstVisited(lk[w].raw[1]) :
        LET d  == decodeData(lk[w].raw[1], visited)
            go == AfterDecode(d)
            members == FilterMembers(d.recs, stateCodeToNameMap[lk[w].state], << >>)
            l  == [lk[w] EXCEPT !.raw = << >>, !.got = << >>,
                                !.failed = FailureOf(d.err),
                                !.decoded = IF d.err = NoErr THEN <<d.recs>> ELSE << >>]
        IN  IF go = "fail"
            THEN /\ lk' = [lk EXCEPT ![w] = Finish(l, << >>, Wrap("decode", d.err))]
                 /\ pc' = [pc EXCEPT ![w] = "done"]
                 /\ UNCHANGED <<url, dec, norm, arg, ret>>
            ELSE /\ lk' = [lk EXCEPT ![w] = [l EXCEPT !.members = members]]
                 /\ arg' = [arg EXCEPT ![w] =
                              [key |-> lk[w].state, value |-> members, ttl |-> Hour]]
                 /\ ret' = [ret EXCEPT ![w] = "getMembers.set"]
                 /\ pc' = [pc EXCEPT ![w] = "Set.Lock"]
    /\ UNCHANGED <<url, dec, norm, items, mu, now, res, snap, hist, calls, env, firstOK>>

\* return members, nil
GetMembersReturn(w) ==
    /\ pc[w] = "getMembers.set"
    /\ lk' = [lk EXCEPT ![w] = Finish([lk[w] EXCEPT !.members = << >>], lk[w].members, NoErr)]
    /\ firstOK' = IF firstOK = << >>
                  THEN <<[key |-> lk[w].state, list |-> lk[w].members,
                          at |-> lk[w].stored[1].at]>>
                  ELSE firstOK
    /\ pc' = [pc EXCEPT ![w] = "done"]
    /\ UNCHANGED <<url, dec, norm, items, mu, now, arg, res, ret, snap, hist, calls, env>>

\* History: the lookup of w is over, and no other lookup's Set counts as
\* later than one of its Sets any more.
Forget(l, w) ==
    IF l.stored = << >> THEN l ELSE [l EXCEPT !.stored[1].after = @ \ {w}]

\* The handler writes its response and the goroutine ends.
Respond(w) ==
    /\ pc[w] = "done"
    /\ lk' = [v \in Workers |-> IF v = w THEN NoLookup ELSE Forget(lk[v], w)]
    /\ pc' = [pc EXCEPT ![w] = "idle"]
    /\ UNCHANGED <<url, dec, norm, items, mu, now, arg, res, ret, snap, hist, calls, env, firstOK>>

Init ==
    /\ items = NewCache
    /\ mu = Unlocked
    /\ now = 0
    /\ pc = [w \in Workers |-> "idle"]
    /\ arg = [w \in Workers |-> NoArg]
    /\ res = [w \in Workers |-> NoRes]
    /\ ret = [w \in Workers |-> "idle"]
    /\ snap = [w \in Workers |-> NoSnap]
    /\ hist = << >>
    /\ calls = 0
    /\ env \in {[LOC_API_KEY |-> k, MODE |-> "real"] : k \in {"", "k3y"}}
    /\ lk = [w \in Workers |-> NoLookup]
    /\ firstOK = << >>
    /\ norm = NoNorm
    /\ dec = NoDec
    /\ url = NoURL

Next ==
    \/ \E w \in Workers, code \in Codes : Lookup(w, code)
    \/ \E w \in Workers : GetRLock(w)
    \/ \E w \in Workers : GetBody(w)
    \/ \E w \in Workers : GetMembersAfterGet(w)
    \/ \E w \in Workers : ClientGet(w)
    \/ \E w \in Workers : SleepDone(w)
    \/ \E w \in Workers : DecodeData(w)
    \/ \E w \in Workers : SetLock(w)
    \/ \E w \in Workers : SetBody(w)
    \/ \E w \in Workers : GetMembersReturn(w)
    \/ \E w \in Workers : Respond(w)
    \/ Tick

Spec == Init /\ [][Next]_vars

--------------------------------------------------------------------------
\* Properties of the cache, on SpecCache. A worker at "Get.ret" holds the
\* answer of its Get in res and, in snap, the instant the Get read the clock
\* and the most recently completed Set of its key at that moment.

GetDone(w) == pc[w] = "Get.ret"

NeverSet(w) == snap[w].last = << >>

LastSet(w) == snap[w].last[1]

ExpiresAtOf(s) == s.at + s.ttl

\* C1: Get reports "not present" for a key that was never Set, and for a
\* Set key whenever the clock it reads is at or past the entry's expiration
\* instant (now >= expiresAt), the instant now = expiresAt included.
C1_NotPresentAtOrPastExpiry ==
    \A w \in Workers :
        GetDone(w) =>
            /\ NeverSet(w) => ~res[w].found
            /\ (~NeverSet(w) /\ snap[w].at >= ExpiresAtOf(LastSet(w))) => ~res[w].found

\* C2: a Get that reads before the expiration of the most recently completed
\* Set of its key returns present with exactly the value of that Set, never
\* the value of an older Set of the key nor the value set for another key.
C2_LastWriteWins ==
    \A w \in Workers :
        (GetDone(w) /\ ~NeverSet(w) /\ snap[w].at < ExpiresAtOf(LastSet(w))) =>
            /\ res[w].found
            /\ res[w].Value = LastSet(w).Value

\* C2 witness: a Get answered before expiry with the last value, where an older
\* Set of the same key had stored another value.
C2_Witness ==
    \E w \in Workers :
        /\ GetDone(w) /\ ~NeverSet(w)
        /\ snap[w].at < ExpiresAtOf(LastSet(w))
        /\ res[w].found /\ res[w].Value = LastSet(w).Value
        /\ LastSet(w).over


InGet(w) == pc[w] = "Get.body"

InSet(w) == pc[w] = "Set.body"

\* C16: under any interleaving of Get and Set, a Set excludes every other
\* reader and writer while it updates the mapping; every entry of the mapping
\* is the complete value and expiration of one finished Set, and a Get that
\* finds an entry returns the value of one; several Gets may hold the cache
\* together.
C16_WriterExcludesAll ==
    /\ \A w \in Workers :
          InSet(w) =>
              /\ mu.writer = {w} /\ mu.readers = {}
              /\ \A v \in Workers \ {w} : ~InGet(v) /\ ~InSet(v)
    /\ \A w \in Workers : InGet(w) => (w \in mu.readers /\ mu.writer = {})
    /\ \A k \in DOMAIN items :
          /\ k \in DOMAIN hist
          /\ items[k] = CacheItem(hist[k].Value, hist[k].at + hist[k].ttl)
    /\ \A w \in Workers :
          (GetDone(w) /\ res[w].found) =>
              /\ ~NeverSet(w)
              /\ res[w].Value = LastSet(w).Value
              /\ snap[w].at <= ExpiresAtOf(LastSet(w))

\* C16 witness: two Gets hold the cache at the same time, an entry being there.
C16_Witness ==
    /\ \A w \in Workers : InGet(w) /\ w \in mu.readers
    /\ DOMAIN items # {}

--------------------------------------------------------------------------
\* Properties of the lookup, on Spec. A worker at "done" has returned from
\* getMembers; lk[w].out holds what it returned.

Done(w) == pc[w] = "done"

Failed(w) == lk[w].out.err # NoErr

\* C3 (as stated): after a lookup for a recognized code has succeeded, every further
\* lookup for the same code that starts within the one-hour validity window
\* (and reads the clock for its cache check within it) returns the identical
\* list and makes zero upstream fetch attempts.
C3_IdenticalWithinWindow ==
    \A w \in Workers :
        (Done(w) /\ lk[w].dueFirst # << >>) =>
            /\ ~Failed(w)
            /\ lk[w].out.list = lk[w].dueFirst[1]
            /\ lk[w].tries = 0

\* C3 (amended): after a lookup for a recognized code has succeeded, every
\* further lookup for the same code that starts and checks the cache within
\* the one-hour validity window makes zero upstream fetch attempts and no
\* store, and returns the list of the most recently completed store for the
\* code: the identical list, unless a concurrent lookup that had also missed
\* the cache has stored its own list since.
C3_LatestWithinWindow ==
    \A w \in Workers :
        (Done(w) /\ lk[w].dueFirst # << >>) =>
            /\ ~Failed(w)
            /\ lk[w].due # << >>
            /\ lk[w].out.list = lk[w].due[1]
            /\ lk[w].tries = 0
            /\ lk[w].sets = 0

\* C3 witness: a lookup inside the window of an earlier successful one,
\* answered from the cache with that lookup's non-empty list.
C3_Witness ==
    \E w \in Workers :
        /\ Done(w) /\ lk[w].dueFirst # << >>
        /\ lk[w].out.list = lk[w].dueFirst[1] /\ lk[w].out.list # << >>
        /\ lk[w].tries = 0

\* C4: whenever the fetch or the decode step of a lookup fails, the lookup
\* returns an error and no list, and makes no write to the cache; the cache
\* mapping changes only in the body of a Set, so an absent entry stays absent
\* and a stale entry keeps its value and expiration instant.
C4_FailedLookup ==
    \A w \in Workers :
        lk[w].failed # "" =>
            /\ Done(w)
            /\ Failed(w) /\ lk[w].out.err.kind = lk[w].failed
            /\ lk[w].out.list = << >>
            /\ lk[w].sets = 0 /\ lk[w].stored = << >>

C4_OnlySetWrites ==
    items' # items =>
        \E w \in Workers : pc[w] = "Set.body" /\ lk'[w].sets = lk[w].sets + 1

C4_FailureLeavesCacheUntouched == [](C4_FailedLookup) /\ [][C4_OnlySetWrites]_vars

\* C4 witness: a lookup whose decode failed while a stale entry of its code
\* is in the cache, still there with its old value.
C4_Witness ==
    \E w \in Workers :
        /\ Done(w) /\ lk[w].failed \in {"json", "nodata", "unmarshal"}
        /\ lk[w].state \in DOMAIN items
        /\ now > items[lk[w].state].ExpiresAt
        /\ items[lk[w].state].Value # << >>
        /\ lk[w].sets = 0

\* C5: a lookup for a code that is not in the jurisdiction table returns an
\* empty list with no error, makes no fetch attempt and no cache write.
C5_UnrecognizedCode ==
    \A w \in Workers :
        (lk[w].state # "" /\ lk[w].state \notin {"GA", "NY"}) =>
            /\ lk[w].tries = 0
            /\ lk[w].sets = 0
            /\ lk[w].state \notin DOMAIN items
            /\ Done(w) => (~Failed(w) /\ lk[w].out.list = << >>)

\* C5 witness: an unrecognized code answered while the credential is set and
\* the cache holds an entry.
C5_Witness ==
    \E w \in Workers :
        /\ Done(w) /\ lk[w].state = "ZZ" /\ lk[w].out.list = << >>
        /\ env.LOC_API_KEY # "" /\ DOMAIN items # {}

AllFailed(trace) == \A i \in 1 .. Len(trace) : trace[i].kind = "fail"

\* C6: a fetch makes at most 3 attempts, a further one only after a transport
\* failure of the one before, and it returns a transport error, wrapping the
\* failure of the last attempt, exactly when all 3 attempts failed so.
C6_AtMostThreeAttempts ==
    \A w \in Workers :
        /\ lk[w].tries <= 3
        /\ Len(lk[w].trace) = lk[w].tries
        /\ \A i \in 1 .. Len(lk[w].trace) - 1 : lk[w].trace[i].kind = "fail"
        /\ Done(w) =>
            /\ lk[w].out.err.kind = "transport"
                  <=> (lk[w].tries = 3 /\ AllFailed(lk[w].trace))
            /\ lk[w].out.err.kind = "transport" => lk[w].out.err.cause = 3

\* C6 witness: a fetch that gave up after three transport failures.
C6_Witness ==
    \E w \in Workers :
        /\ Done(w) /\ lk[w].out.err.kind = "transport"
        /\ lk[w].tries = 3 /\ AllFailed(lk[w].trace)

\* The attempts of w so far: all but the last failed at transport level and
\* the last received a response with status 200.
SucceededAt(w, k) ==
    /\ lk[w].got # << >>
    /\ Len(lk[w].trace) = k
    /\ AllFailed(SubSeq(lk[w].trace, 1, k - 1))
    /\ lk[w].trace[k] = [kind |-> "resp", status |-> 200]

\* What the fetch has done when it returns the body of the response it got:
\* k attempts, k - 1 backoffs, no error, and the body handed to decodeData.
ReturnsBody(w, k) ==
    /\ lk[w].tries = k
    /\ Len(lk[w].sleeps) = k - 1
    /\ pc[w] = "decodeData"
    /\ ~lk[w].out.done /\ lk[w].out.err = NoErr /\ lk[w].failed = ""
    /\ lk[w].raw = <<lk[w].got[1].body>>

C7_StatusNotRetried ==
    \A w \in Workers :
        \A i \in 1 .. Len(lk[w].trace) :
            (lk[w].trace[i].kind = "resp" /\ lk[w].trace[i].status # 200) =>
                /\ i = Len(lk[w].trace)
                /\ Len(lk[w].sleeps) = i - 1
                /\ Done(w)
                /\ lk[w].out.err.kind = "upstream"
                /\ lk[w].out.err.status = lk[w].trace[i].status
                /\ lk[w].out.list = << >>

\* C7 witness: a 503 on the second attempt, after one transport failure.
C7_Witness ==
    \E w \in Workers :
        /\ Done(w) /\ lk[w].tries = 2
        /\ lk[w].trace[1].kind = "fail"
        /\ lk[w].trace[2].status = 503
        /\ lk[w].out.err.status = 503

\* C8: with the credential absent, no fetch makes a network attempt or a
\* backoff delay, and a lookup for a recognized code (a cache miss) fails
\* with the configuration error.
C8_NoCredential ==
    env.LOC_API_KEY = "" =>
        \A w \in Workers :
            /\ lk[w].tries = 0
            /\ lk[w].sleeps = << >>
            /\ (Done(w) /\ lk[w].state \in {"GA", "NY"}) =>
                    /\ lk[w].out.err.kind = "config"
                    /\ lk[w].out.list = << >>

\* C8 witness: a lookup for GA failed for want of the credential.
C8_Witness ==
    \E w \in Workers :
        /\ env.LOC_API_KEY = "" /\ Done(w) /\ lk[w].state = "GA"
        /\ lk[w].out.err.kind = "config" /\ lk[w].tries = 0

UpperCodes == {"GA", "NY", "ZZ"}

\* Every code in use is in upper case: the state of a lookup, the key of a
\* cache call, the keys of the mapping.
C17_KeysUpper ==
    /\ DOMAIN items \subseteq UpperCodes
    /\ \A w \in Workers :
          /\ lk[w].state # "" => lk[w].state \in UpperCodes
          /\ arg[w].key # "" => arg[w].key \in UpperCodes
          /\ lk[w].stored # << >> => lk[w].stored[1].key \in UpperCodes

\* A step is a lookup for "ga" exactly when it is a lookup for "GA".
C17_SameStep ==
    \A w \in Workers : Lookup(w, "ga") <=> Lookup(w, "GA")

\* C17: the lookup puts its code in upper case before the table check, the
\* cache key and the upstream path, so lookups for codes that differ only in
\* letter case ("ga", "GA") take the same steps from the same state, give the
\* same result and use the same cache entry.
C17_CaseInsensitive == [](C17_KeysUpper) /\ [][C17_SameStep]_vars

\* C17 witness: a lookup for Georgia begins its cache check with the key
\* "GA" while the cache holds the entry "GA".
C17_Witness ==
    \E w \in Workers :
        /\ pc[w] = "Get.RLock"
        /\ lk[w].state = "GA" /\ arg[w].key = "GA"
        /\ "GA" \in DOMAIN items

\* The list a miss is to return: the normalised forms, in upstream order, of
\* the records of the jurisdiction whose last term has no end year.
Serving(r) == r.Terms # << >> /\ r.Terms[Len(r.Terms)].EndYear = << >>

ExpectedList(recs, name) ==
    LET keep == SelectSeq(recs, LAMBDA r : r.State = name /\ Serving(r))
    IN  [i \in 1 .. Len(keep) |-> apiMemberToMember(keep[i]).member]

NameOf(code) == IF code = "GA" THEN "Georgia" ELSE "New York"

\* C10: on a cache miss with a successful fetch and decode, the returned list
\* is exactly the normalised forms, in upstream order, of the decoded records
\* of the jurisdiction that normalise to a present result (one current senator
\* and one past member give one record), and that list is stored under the
\* code with a one-hour validity window.
C10_MissStoresFilteredList ==
    \A w \in Workers :
        (Done(w) /\ lk[w].decoded # << >>) =>
            /\ ~Failed(w)
            /\ lk[w].out.list = ExpectedList(lk[w].decoded[1], NameOf(lk[w].state))
            /\ lk[w].decoded[1] = <<recSenator, recPast>> =>
                    (Len(lk[w].out.list) = 1 /\ lk[w].out.list[1].ID = "O000174")
            /\ lk[w].sets = 1
            /\ lk[w].stored # << >>
            /\ lk[w].stored[1].key = lk[w].state
            /\ lk[w].stored[1].item =
                    CacheItem(lk[w].out.list, lk[w].stored[1].at + TicksPerHour)

\* C10 witness: the payload of one current senator and one past member.
C10_Witness ==
    \E w \in Workers :
        /\ Done(w) /\ lk[w].decoded = << <<recSenator, recPast>> >>
        /\ Len(lk[w].out.list) = 1 /\ lk[w].sets = 1

\* C10 second case: a payload of several jurisdictions keeps upstream order.
C10_OrderReached ==
    \E w \in Workers : Done(w) /\ Len(lk[w].out.list) = 2

\* Every record an upstream body of the model carries.
UpstreamRecords ==
    UNION {UNION {{b.fields[i].recs[j] : j \in 1 .. Len(b.fields[i].recs)} :
                     i \in 1 .. Len(b.fields)} : b \in Bodies}

\* For each code of the table, the normalised forms of the upstream records
\* of its jurisdiction whose last term has no end year.
AdmissibleOf ==
    [c \in DOMAIN stateCodeToNameMap |->
        {apiMemberToMember(r).member :
            r \in {x \in UpstreamRecords :
                      x.State = stateCodeToNameMap[c] /\ Serving(x)}}]

Admissible(m, c) == Recognized(c) /\ m \in AdmissibleOf[c]

AllAdmissible(list, c) == \A i \in 1 .. Len(list) : Admissible(list[i], c)

\* C24: every list stored in the cache under a code, and every list a lookup
\* for a code returns, holds only normalised forms of upstream records whose
\* jurisdiction is the code's name in the table and whose last term has no
\* end year; no record of a past member or of another jurisdiction is ever
\* cached or returned.
C24_OnlyCurrentOfJurisdiction ==
    /\ \A c \in DOMAIN items : AllAdmissible(items[c].Value, c)
    /\ \A w \in Workers : Done(w) => AllAdmissible(lk[w].out.list, lk[w].state)

\* C24 witness: a payload with records of two jurisdictions and a record
\* without terms was fetched; its two Georgia members are cached, and a later
\* lookup is answered with them from the cache.
C24_Witness ==
    \E w \in Workers :
        /\ Done(w) /\ lk[w].tries = 0 /\ lk[w].state = "GA"
        /\ Len(lk[w].out.list) = 2
        /\ "GA" \in DOMAIN items /\ items["GA"].Value = lk[w].out.list

\* The response as the caller of the server receives it.
ResponseOf(w) ==
    [status |-> lk[w].resp.status, contentType |-> lk[w].resp.contentType,
     text |-> lk[w].resp.text, json |-> lk[w].resp.json]

GenericFailure ==
    [status |-> 500, contentType |-> "text/plain; charset=utf-8",
     text |-> "internal server error while fetching representatives",
     json |-> << >>]

\* C26: whatever the kind of the error a lookup ends with (configuration,
\* transport, upstream status, schema), the handler answers with one and the
\* same response: status 500 and a fixed message, with no part of the error in
\* it and no record list written.
C26_GenericFailure ==
    \A w \in Workers :
        (Done(w) /\ Failed(w)) =>
            /\ ResponseOf(w) = GenericFailure
            /\ lk[w].resp.logged = <<lk[w].out.err>>

\* C26 witness: two lookups that failed in different ways, one on transport
\* after the retry budget and one on a body with no data field, answered alike.
C26_Witness ==
    /\ Done(1) /\ lk[1].out.err.kind = "transport"
    /\ Done(2) /\ lk[2].out.err.kind = "nodata"
    /\ ResponseOf(1) = GenericFailure /\ ResponseOf(2) = GenericFailure

\* A lookup that fetched and decoded a payload with no current member of the
\* jurisdiction.
FoundNone(w) == Done(w) /\ lk[w].decoded # << >> /\ lk[w].out.list = << >>

\* A lookup whose cache check fell inside the validity window of a Set that
\* stored the empty list.
DueEmpty(w) == lk[w].due = << << >> >>

\* C27: a lookup whose fetch and decode succeed but which finds no current
\* member of the jurisdiction still stores an entry, the empty list with a
\* one-hour window, under the code; a lookup for the code that checks the
\* cache within that window is a hit: it makes no upstream fetch, stores
\* nothing and returns an empty result.
C27_EmptyListIsCached ==
    \A w \in Workers :
        /\ FoundNone(w) =>
              /\ ~Failed(w)
              /\ lk[w].sets = 1
              /\ lk[w].stored[1].key = lk[w].state
              /\ lk[w].stored[1].item = CacheItem(<< >>, lk[w].stored[1].at + Hour)
              /\ lk[w].state \in DOMAIN items
        /\ DueEmpty(w) =>
              /\ Done(w) /\ ~Failed(w)
              /\ lk[w].tries = 0 /\ lk[w].sets = 0
              /\ lk[w].out.list = << >>
              /\ lk[w].resp.status = 200 /\ lk[w].resp.json = << << >> >>

\* C27 witness: one lookup has fetched a payload without a Georgia member and
\* stored the empty list; the other, inside the window, is answered from it.
C27_Witness ==
    \E w, v \in Workers :
        /\ FoundNone(w) /\ lk[w].sets = 1 /\ lk[w].tries >= 1
        /\ lk[w].decoded = << <<recNY5>> >>
        /\ DueEmpty(v) /\ Done(v) /\ lk[v].state = lk[w].state
        /\ lk[v].tries = 0 /\ lk[v].out.list = << >>
        /\ items[lk[w].state] = lk[w].stored[1].item

\* Two lookups for one code that have both missed the cache, fetched, stored
\* and returned, neither response written yet.
BothStored(w, v) ==
    /\ w # v /\ Done(w) /\ Done(v)
    /\ lk[w].state = lk[v].state
    /\ lk[w].sets = 1 /\ lk[v].sets = 1

\* The Set of w finished after the Set of v.
SetAfter(w, v) == v \in lk[w].stored[1].after

\* C21: two concurrent lookups for one recognized code that is not cached can
\* both miss and both fetch upstream; each returns the complete list of its own
\* payload, and once both have finished the entry of the code is the complete
\* list, with its one-hour expiration, written by the later of the two Sets.
C21_LaterSetWins ==
    \A w, v \in Workers :
        BothStored(w, v) =>
            /\ ~Failed(w) /\ ~Failed(v)
            /\ lk[w].tries >= 1 /\ lk[v].tries >= 1
            /\ lk[w].out.list = ExpectedList(lk[w].decoded[1], NameOf(lk[w].state))
            /\ lk[v].out.list = ExpectedList(lk[v].decoded[1], NameOf(lk[v].state))
            /\ SetAfter(w, v) \/ SetAfter(v, w)
            /\ SetAfter(w, v) =>
                  /\ lk[w].state \in DOMAIN items
                  /\ items[lk[w].state] =
                        CacheItem(lk[w].out.list, lk[w].stored[1].at + Hour)

\* C21 witness: the only two lookups ever made are for one code, both have
\* fetched and stored, their lists differ, and the entry holds the later one.
C21_Witness ==
    \E w, v \in Workers :
        /\ BothStored(w, v) /\ calls = 2
        /\ SetAfter(w, v)
        /\ lk[w].out.list # lk[v].out.list
        /\ lk[v].out.list # << >>
        /\ items[lk[w].state].Value = lk[w].out.list

\* No step of Cache.Get changes the mapping, and no step removes an entry.
C22_GetKeepsMapping ==
    /\ \A w \in Workers :
          (pc[w] \in {"Get.RLock", "Get.body"} /\ pc'[w] # pc[w]) => items' = items
    /\ DOMAIN items \subseteq DOMAIN items'

\* A lookup whose cache check reads the clock at or past the expiration of the
\* key's entry fetches anew and, when it succeeds, has replaced the entry with
\* its list and a later expiration instant.
C22_RefetchAfterExpiry ==
    \A w \in Workers :
        (Done(w) /\ lk[w].expired # << >>) =>
            /\ lk[w].tries >= 1
            /\ ~Failed(w) =>
                  /\ lk[w].sets = 1
                  /\ lk[w].stored[1].item =
                        CacheItem(lk[w].out.list, lk[w].stored[1].at + Hour)
                  /\ lk[w].stored[1].item.ExpiresAt > lk[w].expired[1]

\* C22: expiry is lazy. Get never changes the mapping, an expired entry stays
\* stored and nothing deletes an entry; the first lookup for a code after its
\* entry has expired makes a new upstream fetch and, on success, replaces the
\* entry with the new list and a new expiration instant.
C22_LazyExpiry == [](C22_RefetchAfterExpiry) /\ [][C22_GetKeepsMapping]_vars

--------------------------------------------------------------------------
\* apiMemberToMember on its own: Init draws the record, Normalize applies the
\* function to it.

MaxTerms == 3

EndYears == {<< >>, <<2011>>}

\* "Senate" as the code spells it, and in another letter case.
s_sENATE == <<"s", "E", "N", "A", "T", "E">>

Chambers == {s_House, s_Senate, s_sENATE}

TermItems ==
    {ApiTermItem(c, 2001, e) : c \in Chambers, e \in EndYears}

RECURSIVE TermLists(_)
TermLists(n) ==
    IF n = 0 THEN {<< >>}
    ELSE LET shorter == TermLists(n - 1)
         IN  shorter \cup {Append(ts, t) : ts \in {x \in shorter : Len(x) = n - 1},
                                           t \in TermItems}

n_SmithJohnAllen ==
    <<"S", "m", "i", "t", "h", ",", " ", "J", "o", "h", "n", " ", "A", "l", "l", "e", "n">>

n_Smith == <<"S", "m", "i", "t", "h">>

\* First and middle name separated by a tab.
n_DoeJaneTabAnn == <<"D", "o", "e", ",", " ", "J", "a", "n", "e", "\t", "A", "n", "n">>

NormNames ==
    {<<"O", "s", "s", ",", " ", "J", "o", "n", " ", "T">>, <<"A", "l", "l", "e", "n">>,
     n_SmithJohnAllen, n_Smith, n_DoeJaneTabAnn}

Districts == {0, 5, 12}

Parties ==
    {"Democratic", "Republican", "Independent", "Libertarian", "Green", "Whig", ""}

NormInputs ==
    {ApiMember("X000001", name, terms, "Georgia", district, party) :
        name \in NormNames, terms \in TermLists(MaxTerms),
        district \in Districts, party \in Parties}

InitNorm ==
    /\ items = NewCache
    /\ mu = Unlocked
    /\ now = 0
    /\ pc = [w \in Workers |-> "idle"]
    /\ arg = [w \in Workers |-> NoArg]
    /\ res = [w \in Workers |-> NoRes]
    /\ ret = [w \in Workers |-> "idle"]
    /\ snap = [w \in Workers |-> NoSnap]
    /\ hist = << >>
    /\ calls = 0
    /\ env = [LOC_API_KEY |-> "", MODE |-> ""]
    /\ lk = [w \in Workers |-> NoLookup]
    /\ firstOK = << >>
    /\ dec = NoDec
    /\ url = NoURL
    /\ \E apiM \in NormInputs : norm = [apiM |-> <<apiM>>, result |-> << >>]

\* member, ok := apiMemberToMember(apiM)
Normalize ==
    /\ norm.apiM # << >>
    /\ norm.result = << >>
    /\ norm' = [norm EXCEPT !.result = <<apiMemberToMember(norm.apiM[1])>>]
    /\ UNCHANGED <<url, dec, items, mu, now, pc, arg, res, ret, snap, hist, calls, env, lk, firstOK>>

NextNorm == Normalize

SpecNorm == InitNorm /\ [][NextNorm]_vars

Normalized == norm.result # << >>

\* The record with the end year of its i-th term replaced.
WithEndYear(apiM, i, e) == [apiM EXCEPT !.Terms[i].EndYear = e]

\* C9: apiMemberToMember yields a client record if and only if the record
\* has at least one term and the last term in list order has no end year;
\* the end years of the earlier terms, null or not, never change the outcome.
C9_LastTermDecides ==
    Normalized =>
        LET apiM == norm.apiM[1]
            n    == Len(apiM.Terms)
        IN  /\ norm.result[1].ok <=> (n > 0 /\ apiM.Terms[n].EndYear = << >>)
            /\ ~norm.result[1].ok => norm.result[1].member = ZeroMember
            /\ \A i \in 1 .. n - 1 : \A e \in EndYears :
                   apiMemberToMember(WithEndYear(apiM, i, e)).ok = norm.result[1].ok

\* C9 witness: a record whose earlier term has no end year and whose last
\* term has one, normalised to nothing.
C9_Witness ==
    /\ Normalized
    /\ Len(norm.apiM[1].Terms) >= 2
    /\ norm.apiM[1].Terms[1].EndYear = << >>
    /\ norm.apiM[1].Terms[Len(norm.apiM[1].Terms)].EndYear # << >>
    /\ ~norm.result[1].ok

\* C9 second case: earlier terms ended, the last still running, a record.
C9_CurrentReached ==
    /\ Normalized
    /\ Len(norm.apiM[1].Terms) >= 2
    /\ norm.apiM[1].Terms[1].EndYear # << >>
    /\ norm.result[1].ok

\* The record with the chamber of its i-th term replaced.
WithChamber(apiM, i, c) == [apiM EXCEPT !.Terms[i].Chamber = c]

\* The label of a district number, as the text "District <n> Rep.".
DistrictLabel(n) ==
    CASE n = 5  -> <<"District ", "5", " Rep.">>
      [] n = 12 -> <<"District ", "1", "2", " Rep.">>

\* C13: for every record that normalises to a client record the district
\* label is "Senator" when district is 0 and the chamber of the last term
\* is "Senate" in any letter case, "At-Large Rep." when district is 0 and
\* that chamber is anything else, and "District <n> Rep." for a district
\* n other than 0; the chambers of earlier terms never affect the label.
C13_DistrictLabel ==
    (Normalized /\ norm.result[1].ok) =>
        LET apiM  == norm.apiM[1]
            n     == Len(apiM.Terms)
            label == norm.result[1].member.District
        IN  /\ (apiM.District = 0 /\ apiM.Terms[n].Chamber \in {s_Senate, s_sENATE})
                  => label = <<"Senator">>
            /\ (apiM.District = 0 /\ apiM.Terms[n].Chamber \notin {s_Senate, s_sENATE})
                  => label = <<"At-Large Rep.">>
            /\ apiM.District # 0 => label = DistrictLabel(apiM.District)
            /\ \A i \in 1 .. n - 1 : \A c \in Chambers :
                   apiMemberToMember(WithChamber(apiM, i, c)).member.District = label

\* C13 witness: district 0, an earlier House term, a last term spelled
\* "sENATE": a senator.
C13_Witness ==
    /\ Normalized /\ norm.result[1].ok
    /\ norm.apiM[1].District = 0
    /\ Len(norm.apiM[1].Terms) >= 2
    /\ norm.apiM[1].Terms[1].Chamber = s_House
    /\ norm.apiM[1].Terms[Len(norm.apiM[1].Terms)].Chamber = s_sENATE
    /\ norm.result[1].member.District = <<"Senator">>

\* The first whitespace-delimited token of a string.
RECURSIVE UntilSpace(_)
UntilSpace(s) ==
    IF s = << >> \/ Head(s) \in {" ", "\t", "\n"} THEN << >>
    ELSE <<Head(s)>> \o UntilSpace(Tail(s))

RECURSIVE FirstToken(_)
FirstToken(s) ==
    IF s # << >> /\ Head(s) \in {" ", "\t", "\n"} THEN FirstToken(Tail(s))
    ELSE UntilSpace(s)

CommaAt(name) == {i \in 1 .. Len(name) : name[i] = ","}

FirstComma(name) == CHOOSE i \in CommaAt(name) : \A k \in CommaAt(name) : i <= k

\* C14: apiMemberToMember splits the name on its first comma: the part
\* before it is the last name and the first whitespace-delimited token of
\* the rest is the first name ("Smith, John Allen" gives "John" and
\* "Smith"); a name with no comma gives the whole string as last name and an
\* empty first name, and is still a record.
C14_NameSplit ==
    (Normalized /\ IsCurrent(norm.apiM[1])) =>
        LET name == norm.apiM[1].Name
            m    == norm.result[1].member
        IN  /\ norm.result[1].ok
            /\ name = n_SmithJohnAllen =>
                  /\ m.FirstName = <<"J", "o", "h", "n">>
                  /\ m.LastName = <<"S", "m", "i", "t", "h">>
            /\ CommaAt(name) # {} =>
                  /\ m.LastName = SubSeq(name, 1, FirstComma(name) - 1)
                  /\ m.FirstName = FirstToken(SubSeq(name, FirstComma(name) + 1, Len(name)))
            /\ CommaAt(name) = {} =>
                  /\ m.LastName = name
                  /\ m.FirstName = << >>

--------------------------------------------------------------------------
\* decodeData on its own: Init draws the response body, Decode applies the
\* function to it, map iteration reaching any of the non-metadata fields
\* first.

MaxFields == 4

\* Fields a body may hold: the two metadata fields, an array of records,
\* a string, an object, a null, and an array whose second element is not a
\* record (recs holds the elements before it).
FieldPool ==
    {MetaRequest, MetaPagination,
     Field("members", "array", <<recSenator, recPast>>),
     Field("version", "scalar", << >>),
     Field("links", "object", << >>),
     Field("data", "null", << >>),
     Field("items", "badarray", <<recNY5>>)}

FieldNames(fs) == {fs[i].name : i \in 1 .. Len(fs)}

RECURSIVE FieldLists(_)
FieldLists(n) ==
    IF n = 0 THEN {<< >>}
    ELSE LET shorter == FieldLists(n - 1)
         IN  shorter \cup
             {Append(p[1], p[2]) :
                 p \in {q \in shorter \X FieldPool :
                           Len(q[1]) = n - 1 /\ q[2].name \notin FieldNames(q[1])}}

DecodeInputs == {Object(fs) : fs \in FieldLists(MaxFields)} \cup {NotAnObject}

InitDecode ==
    /\ items = NewCache
    /\ mu = Unlocked
    /\ now = 0
    /\ pc = [w \in Workers |-> "idle"]
    /\ arg = [w \in Workers |-> NoArg]
    /\ res = [w \in Workers |-> NoRes]
    /\ ret = [w \in Workers |-> "idle"]
    /\ snap = [w \in Workers |-> NoSnap]
    /\ hist = << >>
    /\ calls = 0
    /\ env = [LOC_API_KEY |-> "", MODE |-> ""]
    /\ lk = [w \in Workers |-> NoLookup]
    /\ firstOK = << >>
    /\ norm = NoNorm
    /\ \E raw \in DecodeInputs : dec = [raw |-> <<raw>>, result |-> << >>]
    /\ url = NoURL

\* allApiMembers, err := decodeData(rawJSON)
Decode ==
    /\ dec.raw # << >>
    /\ dec.result = << >>
    /\ \E visited \in FirstVisited(dec.raw[1]) :
          dec' = [dec EXCEPT !.result = <<decodeData(dec.raw[1], visited)>>]
    /\ UNCHANGED <<url, norm, items, mu, now, pc, arg, res, ret, snap, hist, calls, env, lk, firstOK>>

NextDecode == Decode

SpecDecode == InitDecode /\ [][NextDecode]_vars

Decoded == dec.result # << >>

KindsAt(raw, kinds) == {i \in 1 .. Len(raw.fields) : raw.fields[i].kind \in kinds}

\* An object with both metadata fields, exactly one array of records, and
\* beyond them only scalar- or object-valued fields.
Tolerable(raw) ==
    /\ raw.obj
    /\ {"request", "pagination"} \subseteq FieldNames(raw.fields)
    /\ Cardinality(KindsAt(raw, {"array"})) = 1
    /\ KindsAt(raw, {"null", "badarray"}) = {}

\* C11: decodeData of an object that holds the metadata fields, exactly one
\* array of records and any number of further scalar- or object-valued fields
\* succeeds and returns that array, whatever field the iteration visits first.
C11_DecodeToleratesUnknownFields ==
    (Decoded /\ Tolerable(dec.raw[1])) =>
        /\ dec.result[1].err = NoErr
        /\ \A i \in KindsAt(dec.raw[1], {"array"}) :
               dec.result[1].recs = dec.raw[1].fields[i].recs

NonMetadata(raw) ==
    {i \in 1 .. Len(raw.fields) : raw.fields[i].name \notin {"request", "pagination"}}

\* The bodies decodeData is to refuse: not an object, no field besides the
\* metadata, or one field besides them whose value is not an array of records.
Refusable(raw) ==
    \/ ~raw.obj
    \/ NonMetadata(raw) = {}
    \/ /\ Cardinality(NonMetadata(raw)) = 1
       /\ \A i \in NonMetadata(raw) : raw.fields[i].kind # "array"

\* C12: decodeData returns an error, and never an empty or partial list, when
\* the input is not a JSON object, when every field is a metadata field or
\* the object is empty, and when the one non-metadata field cannot be parsed
\* as an array of records.
C12_DecodeRefuses ==
    (Decoded /\ Refusable(dec.raw[1])) =>
        /\ dec.result[1].err # NoErr
        /\ dec.result[1].recs = << >>

\* C23: the outcome of decodeData depends on the input alone: for one and the
\* same top-level object, objects with two or more non-metadata fields
\* included, every field the iteration may visit first gives the result the
\* call returned (the same record list or the same failure).
C23_DecodeOrderIndependent ==
    Decoded =>
        \A visited \in FirstVisited(dec.raw[1]) :
            decodeData(dec.raw[1], visited) = dec.result[1]

--------------------------------------------------------------------------
\* SpecMock: the server in mock mode (MODE unset or anything but "real").

MockModes == {"", "mock", "MOCK"}

MockCodes == {"NY", "ny", "TX", "GA", "ZZ"}

InitMock ==
    /\ items = NewCache
    /\ mu = Unlocked
    /\ now = 0
    /\ pc = [w \in Workers |-> "idle"]
    /\ arg = [w \in Workers |-> NoArg]
    /\ res = [w \in Workers |-> NoRes]
    /\ ret = [w \in Workers |-> "idle"]
    /\ snap = [w \in Workers |-> NoSnap]
    /\ hist = << >>
    /\ calls = 0
    /\ env \in {[LOC_API_KEY |-> k, MODE |-> m] : k \in {"", "k3y"}, m \in MockModes}
    /\ lk = [w \in Workers |-> NoLookup]
    /\ firstOK = << >>
    /\ norm = NoNorm
    /\ dec = NoDec
    /\ url = NoURL

NextMock ==
    \/ \E w \in Workers, code \in MockCodes : Lookup(w, code)
    \/ \E w \in Workers : Respond(w)
    \/ Tick

SpecMock == InitMock /\ [][NextMock]_vars

\* C18: a lookup in mock mode returns the canned list for a code of the
\* static table and an empty list with no error for any other code; it never
\* reads or writes the cache and never makes an upstream fetch attempt.
C18_MockLookup ==
    /\ items = NewCache /\ hist = << >> /\ mu = Unlocked
    /\ \A w \in Workers :
          /\ pc[w] \in {"idle", "done"}
          /\ arg[w] = NoArg /\ res[w] = NoRes /\ snap[w] = NoSnap
          /\ lk[w].tries = 0 /\ lk[w].sleeps = << >> /\ lk[w].sets = 0
          /\ Done(w) =>
                /\ ~Failed(w)
                /\ lk[w].state \in {"NY", "CA", "TX"} =>
                        (lk[w].out.list = mockDB[lk[w].state] /\ lk[w].out.list # << >>)
                /\ lk[w].state = "TX" =>
                        (Len(lk[w].out.list) = 1 /\ lk[w].out.list[1].ID = "rep-tx-7")
                /\ lk[w].state \notin {"NY", "CA", "TX"} => lk[w].out.list = << >>

\* C18 witness: one mock lookup answered with the two canned records of NY,
\* another, for a state outside the canned table, with the empty list.
C18_Witness ==
    /\ Done(1) /\ lk[1].state = "NY" /\ Len(lk[1].out.list) = 2
    /\ Done(2) /\ lk[2].state = "GA" /\ lk[2].out.list = << >>
    /\ env.LOC_API_KEY # ""

--------------------------------------------------------------------------
\* fetchJSON up to the request URL, on its own: Init draws the environment,
\* the path and the params map, BuildRequest applies the code to them.

\* The params maps drawn hold at most MaxParams keys.
MaxParams == 2

\* const baseURL
baseURL == "https://api.congress.gov/v3"

\* The paths callers pass: the one getMembers builds, and one with a broken
\* percent escape, which url.Parse rejects.
Paths == {"/member/GA", "/member/%zz"}

ParseOK(path) == path # "/member/%zz"

ParamKeys == {"format", "limit", "api_key"}

ParamValues == {"json", "75", "a b"}

ParamMaps ==
    UNION {[S -> ParamValues] : S \in {T \in SUBSET ParamKeys : Cardinality(T) <= MaxParams}}

\* url.QueryEscape, on the values of the model.
QueryEscape(v) == IF v = "a b" THEN "a+b" ELSE v

\* url.Values.Set: the key holds this one value from now on.
QuerySet(q, k, v) == [x \in DOMAIN q \cup {k} |-> IF x = k THEN v ELSE q[x]]

\* for k, v := range params { q.Set(k, v) }
RECURSIVE SetAll(_, _, _)
SetAll(q, params, keys) ==
    IF keys = {} THEN q
    ELSE LET k == CHOOSE x \in keys : TRUE
         IN  SetAll(QuerySet(q, k, params[k]), params, keys \ {k})

\* q := u.Query(); q.Set("api_key", apiKey); the loop over params.
BuildQuery(apiKey, params) ==
    SetAll(QuerySet(<< >>, "api_key", apiKey), params, DOMAIN params)

\* url.Values.Encode: key=value pairs sorted by key, values escaped.
KeyOrder == <<"api_key", "format", "limit">>

Encode(q) ==
    LET ks == SelectSeq(KeyOrder, LAMBDA k : k \in DOMAIN q)
    IN  [i \in 1 .. Len(ks) |-> <<ks[i], QueryEscape(q[ks[i]])>>]

\* fetchJSON from readAPIKey to u.RawQuery = q.Encode().
BuildURL(e, path, params) ==
    LET k == readAPIKey(e)
    IN  IF k.err # NoErr THEN [u |-> << >>, err |-> k.err]
        ELSE IF ~ParseOK(path) THEN [u |-> << >>, err |-> Err("path", 0, 0)]
        ELSE [u |-> <<[base |-> baseURL, path |-> path,
                       RawQuery |-> Encode(BuildQuery(k.key, params))]>>,
              err |-> NoErr]

InitURL ==
    /\ items = NewCache
    /\ mu = Unlocked
    /\ now = 0
    /\ pc = [w \in Workers |-> "idle"]
    /\ arg = [w \in Workers |-> NoArg]
    /\ res = [w \in Workers |-> NoRes]
    /\ ret = [w \in Workers |-> "idle"]
    /\ snap = [w \in Workers |-> NoSnap]
    /\ hist = << >>
    /\ calls = 0
    /\ env \in {[LOC_API_KEY |-> k, MODE |-> "real"] : k \in {"", "k3y"}}
    /\ lk = [w \in Workers |-> NoLookup]
    /\ firstOK = << >>
    /\ norm = NoNorm
    /\ dec = NoDec
    /\ \E path \in Paths, params \in ParamMaps :
          url = [path |-> path, params |-> params, result |-> << >>]

BuildRequest ==
    /\ url.result = << >>
    /\ url' = [url EXCEPT !.result = <<BuildURL(env, url.path, url.params)>>]
    /\ UNCHANGED <<dec, norm, items, mu, now, pc, arg, res, ret, snap, hist, calls, env, lk,
                   firstOK>>

NextURL == BuildRequest

SpecURL == InitURL /\ [][NextURL]_vars

Built == url.result # << >> /\ url.result[1].err = NoErr

Sent(k) ==
    LET rq == url.result[1].u[1].RawQuery
    IN  {rq[i][2] : i \in {j \in 1 .. Len(rq) : rq[j][1] = k}}

\* C25: the request URL carries every query parameter the caller supplied and
\* the credential as the api_key parameter; for every params map, one that
\* holds a key named api_key included, the api_key sent upstream is the
\* credential resolved from the environment.
C25_CredentialSent ==
    Built =>
        /\ \A k \in DOMAIN url.params \ {"api_key"} :
               Sent(k) = {QueryEscape(url.params[k])}
        /\ Sent("api_key") = {QueryEscape(readAPIKey(env).key)}

====
